---- MODULE Spec2Model ----
(***************************************************************************)
(* Model of the botvana control plane.                                     *)
(*                                                                         *)
(* Server side (botvana-server/src/bot_server.rs): the acceptor `serve`,   *)
(* one detached task per accepted connection, the per-connection handler   *)
(* `handle_connection` and the frame dispatcher `process_bot_message`,     *)
(* all sharing the registry of connected bots (state::GlobalState) and the *)
(* semaphore conn_control.                                                 *)
(*                                                                         *)
(* Every `.await` of the source is a point where the tasks of other        *)
(* connections may run, so a handler is modelled as a sequence of steps,   *)
(* one per await, with pc[c] naming the await the task of connection c is  *)
(* parked at.                                                              *)
(*                                                                         *)
(* Bot side (botnode/src/control.rs): ControlEngine::start and             *)
(* run_control_loop, with control_pc naming the await the engine is parked *)
(* at.                                                                     *)
(*                                                                         *)
(* Time is counted in whole seconds by the clocks idle, silence, timer and *)
(* since_sent; it passes only in the specifications SpecTimed (server) and *)
(* SpecControl (bot).  In Spec a timer may fire at any moment.             *)
(***************************************************************************)
EXTENDS Naturals, FiniteSets, Sequences, TLC

\* ------------------------------------------------------------------ bounds
NumConns == 2       \* connections the listener hands out
NumBotIds == 2      \* distinct bot identities the clients may present
MaxPermits == 2     \* largest value of serve's max_connections argument
NumConfigs == 2     \* distinct BotConfiguration payloads the bot may receive
MaxConsumers == 2   \* calls of data_rx before start
MaxOwed == 1        \* replies on their way to the bot at one time

\* ------------------------------------------------------ program constants
ACTIVITY_TIMEOUT_SECS == 15   \* bot_server.rs
CONSUMER_LIMIT == 16          \* control.rs
ping_interval == 5            \* control.rs, ControlEngine::new, in seconds
START_DELAY_SECS == 1         \* control.rs, the sleep opening start
RETRY_DELAY_SECS == 1         \* control.rs, the sleep after a failed attempt

Conns == 1..NumConns
BotIds == 1..NumBotIds

\* Option<BotId>: None is the empty set, Some(id) is {id}.
None == {}
Some(id) == {id}
OptionBotId == {None} \cup {Some(id) : id \in BotIds}

\* ---------------------------------------------------------------- messages
\* The frames the server writes (botvana::net::msg::Message).  The fields
\* market_data and indicators of a BotConfiguration are the same in every
\* reply and are left out.  The frames the server reads are the parameters
\* of the actions that receive them.
Pong == [type |-> "Pong"]
BotConfiguration(id, peers) ==
    [type |-> "BotConfiguration", bot_id |-> id, peer_bots |-> peers]

\* --------------------------------------------------------- global registry
\* state::GlobalState, the shared set of connected bot identities.
connected_bots(reg) == reg
add_bot(reg, id) == reg \cup {id}
remove_bot(reg, id) == reg \ {id}

\* -------------------------------------------------------------------- state
VARIABLES
    max_connections,  \* serve's argument
    acceptor,         \* serve's loop: "accepting" or "returned"
    executor,         \* the executor running all tasks: "up" or "down"
    conn_control,     \* units available in the semaphore
    registry,         \* the contents of global_state
    pc,               \* per connection: where its task is parked
    permit,           \* per connection: units held by the task's _permit
    conn_bot_id,      \* per connection: handle_connection's conn_bot_id
    bots,             \* per connection: process_bot_message's snapshot `bots`
    result,           \* per connection: how the task ended
    sent,             \* per connection: the frames written to its stream
    idle,             \* per connection: seconds the select's sleep has run
    silence,          \* per connection: seconds since its last inbound frame
    control_pc,       \* the engine: where start / run_control_loop is parked
    status,           \* control.status
    shutdown,         \* whether the shutdown signal has been triggered
    timer,            \* seconds the sleep the engine is parked at has run
    since_sent,       \* seconds since the engine last wrote a frame
    bot_configuration,\* control.bot_configuration
    config_txs,       \* control.config_txs: the slot of each output channel
    owed,             \* replies of the server on their way to the bot
    extra             \* whether the bot got a frame that was no reply

server_vars == <<max_connections, acceptor, executor, conn_control, registry,
                 pc, permit, conn_bot_id, bots, result, sent>>
clock_vars == <<idle, silence>>
control_vars == <<control_pc, status, shutdown, timer, since_sent,
                  bot_configuration, config_txs, owed, extra>>

vars == <<max_connections, acceptor, executor, conn_control, registry, pc,
          permit, conn_bot_id, bots, result, sent, idle, silence, control_pc,
          status, shutdown, timer, since_sent, bot_configuration, config_txs,
          owed, extra>>

\* pc values
\*   "unaccepted"     the listener has not yet returned this connection
\*   "acquire_permit" task spawned, parked in acquire_permit(1).await
\*   "select"         in handle_connection, parked in futures::select!
\*   "add_bot"        first Hello, snapshot taken, parked in add_bot(..).await
\*   "send_cfg"       parked in stream.send(out_msg).await
\*   "done"           the task has ended
\* A step that touches only the task's own locals is taken together with the
\* step that follows it.
Running == {"select", "add_bot", "send_cfg"}

\* How a task ended: "none" while it has not, Ok(()) or a BotServerError
\* returned by handle_connection, or a panic carrying the BotServerError that
\* expect was called on.
Results == {"none", "Ok", "ReadError", "WriteError", "Timeout", "DuplicateHello",
            "panic:DuplicateHello", "panic:WriteError"}

Init ==
    /\ max_connections \in 1..MaxPermits
    /\ acceptor = "accepting"
    /\ executor = "up"
    /\ conn_control = max_connections
    /\ registry = {}
    /\ pc = [c \in Conns |-> "unaccepted"]
    /\ permit = [c \in Conns |-> 0]
    /\ conn_bot_id = [c \in Conns |-> None]
    /\ bots = [c \in Conns |-> {}]
    /\ result = [c \in Conns |-> "none"]
    /\ sent = [c \in Conns |-> {}]
    /\ idle = [c \in Conns |-> 0]
    /\ silence = [c \in Conns |-> 0]
    /\ control_pc = "new"
    /\ status = "Offline"
    /\ shutdown = FALSE
    /\ timer = 0
    /\ since_sent = 0
    /\ bot_configuration = None
    /\ config_txs = <<>>
    /\ owed = <<>>
    /\ extra = FALSE

\* ------------------------------------------------------------------- serve
\* listener.accept() returns Ok(stream): spawn a detached task for it.
\* Connections are numbered in the order the listener returns them.
Accept(c) ==
    /\ executor = "up"
    /\ acceptor = "accepting"
    /\ pc[c] = "unaccepted"
    /\ \A d \in Conns : d < c => pc[d] # "unaccepted"
    /\ pc' = [pc EXCEPT ![c] = "acquire_permit"]
    /\ UNCHANGED <<max_connections, acceptor, executor, conn_control, registry,
                   permit, conn_bot_id, bots, result, sent>>

\* listener.accept() returns Err: serve returns the error; the loop ends.
AcceptError ==
    /\ executor = "up"
    /\ acceptor = "accepting"
    /\ acceptor' = "returned"
    /\ UNCHANGED <<max_connections, executor, conn_control, registry, pc,
                   permit, conn_bot_id, bots, result, sent>>

\* AcquirePermit with a semaphore that hands out a unit it does not have.
AcquirePermitNoWait(c) ==
    /\ executor = "up"
    /\ pc[c] = "acquire_permit"
    /\ conn_control' = IF conn_control >= 1 THEN conn_control - 1 ELSE 0
    /\ permit' = [permit EXCEPT ![c] = 1]
    /\ conn_bot_id' = [conn_bot_id EXCEPT ![c] = None]
    /\ pc' = [pc EXCEPT ![c] = "select"]
    /\ UNCHANGED <<max_connections, acceptor, executor, registry, bots,
                   result, sent>>

\* conn_control.acquire_permit(1).await completes; handle_connection starts
\* with conn_bot_id = None and parks in the select.
AcquirePermit(c) ==
    /\ executor = "up"
    /\ pc[c] = "acquire_permit"
    /\ conn_control >= 1
    /\ conn_control' = conn_control - 1
    /\ permit' = [permit EXCEPT ![c] = 1]
    /\ conn_bot_id' = [conn_bot_id EXCEPT ![c] = None]
    /\ pc' = [pc EXCEPT ![c] = "select"]
    /\ UNCHANGED <<max_connections, acceptor, executor, registry, bots,
                   result, sent>>

\* The task's async block ends with handle_connection's result r: an Err is
\* logged, then _permit and the stream are dropped.
TaskReturns(c, r) ==
    /\ pc' = [pc EXCEPT ![c] = "done"]
    /\ result' = [result EXCEPT ![c] = r]
    /\ conn_control' = conn_control + permit[c]
    /\ permit' = [permit EXCEPT ![c] = 0]
    /\ sent' = [sent EXCEPT ![c] = {}]
    /\ executor' = executor

\* .expect("Failed to process") on Err(e) panics inside the task.  What a
\* panic does is decided by the build and the executor: either the task
\* alone unwinds (its locals, _permit included, are dropped), or the panic
\* leaves the task and takes the executor down with every task on it.
TaskPanics(c, e) ==
    \/ /\ pc' = [pc EXCEPT ![c] = "done"]
       /\ result' = [result EXCEPT ![c] = e]
       /\ conn_control' = conn_control + permit[c]
       /\ permit' = [permit EXCEPT ![c] = 0]
       /\ sent' = [sent EXCEPT ![c] = {}]
       /\ executor' = executor
    \/ /\ pc' = [pc EXCEPT ![c] = "done"]
       /\ result' = [result EXCEPT ![c] = e]
       /\ executor' = "down"
       /\ UNCHANGED <<conn_control, permit, sent>>

\* ------------------------------------------------------- handle_connection
\* What a step of connection c leaves alone besides the task's own fields.
ServerUnchanged == UNCHANGED <<max_connections, acceptor>>

\* stream.next() yields Some(Ok(Hello(id))) while conn_bot_id is None:
\* process_bot_message stores the id, takes the snapshot
\* `bots = global_state.connected_bots().await` and parks in add_bot.
FirstHello(c, id) ==
    /\ executor = "up"
    /\ pc[c] = "select"
    /\ conn_bot_id[c] = None
    /\ conn_bot_id' = [conn_bot_id EXCEPT ![c] = Some(id)]
    /\ bots' = [bots EXCEPT ![c] = connected_bots(registry)]
    /\ pc' = [pc EXCEPT ![c] = "add_bot"]
    /\ ServerUnchanged
    /\ UNCHANGED <<executor, conn_control, registry, permit, result, sent>>

\* AddBot writing back the snapshot plus the new id (a lost update).
AddBotFromSnapshot(c) ==
    /\ executor = "up"
    /\ pc[c] = "add_bot"
    /\ \E id \in conn_bot_id[c] : registry' = add_bot(bots[c], id)
    /\ pc' = [pc EXCEPT ![c] = "send_cfg"]
    /\ UNCHANGED <<max_connections, acceptor>>
    /\ UNCHANGED <<executor, conn_control, permit, conn_bot_id, bots, result,
                   sent>>

\* global_state.add_bot(bot_id.clone()).await
AddBot(c) ==
    /\ executor = "up"
    /\ pc[c] = "add_bot"
    /\ \E id \in conn_bot_id[c] : registry' = add_bot(registry, id)
    /\ pc' = [pc EXCEPT ![c] = "send_cfg"]
    /\ ServerUnchanged
    /\ UNCHANGED <<executor, conn_control, permit, conn_bot_id, bots, result,
                   sent>>

\* PeerBots with the snapshot taken after add_bot instead of before it.
PeerBotsAfterAdd(c) == bots[c] \cup conn_bot_id[c]

\* peer_bots: one PeerBot per element of the snapshot `bots`.
PeerBots(c) == bots[c]

\* stream.send(out_msg).await: on Ok the frame is written and the handler
\* loops; on Err process_bot_message returns WriteError and the caller's
\* expect panics.
SendBotConfiguration(c) ==
    /\ executor = "up"
    /\ pc[c] = "send_cfg"
    /\ bots' = [bots EXCEPT ![c] = {}]
    /\ \E ok \in BOOLEAN :
         IF ok
         THEN /\ \E id \in conn_bot_id[c] :
                   sent' = [sent EXCEPT ![c] =
                              @ \cup {BotConfiguration(id, PeerBots(c))}]
              /\ pc' = [pc EXCEPT ![c] = "select"]
              /\ UNCHANGED <<executor, conn_control, permit, result>>
         ELSE TaskPanics(c, "panic:WriteError")
    /\ ServerUnchanged
    /\ UNCHANGED <<registry, conn_bot_id>>

\* stream.next() yields Some(Ok(Hello(..))) while conn_bot_id is Some:
\* process_bot_message removes the connection's id from the registry and
\* returns Err(DuplicateHello), on which the caller's expect panics.
DuplicateHello(c) ==
    /\ executor = "up"
    /\ pc[c] = "select"
    /\ conn_bot_id[c] # None
    /\ \E id \in conn_bot_id[c] : registry' = remove_bot(registry, id)
    /\ TaskPanics(c, "panic:DuplicateHello")
    /\ ServerUnchanged
    /\ UNCHANGED <<conn_bot_id, bots>>

\* stream.next() yields Some(Ok(Ping(t))): stream.send(Message::pong()),
\* with the outcomes of SendBotConfiguration.
RecvPing(c) ==
    /\ executor = "up"
    /\ pc[c] = "select"
    /\ \E ok \in BOOLEAN :
         IF ok
         THEN /\ sent' = [sent EXCEPT ![c] = @ \cup {Pong}]
              /\ UNCHANGED <<executor, conn_control, pc, permit, result>>
         ELSE TaskPanics(c, "panic:WriteError")
    /\ ServerUnchanged
    /\ UNCHANGED <<registry, conn_bot_id, bots>>

\* RecvUnhandled treating an unhandled variant as a failed read.
RecvUnhandledAsError(c) ==
    /\ executor = "up"
    /\ pc[c] = "select"
    /\ TaskReturns(c, "ReadError")
    /\ UNCHANGED <<max_connections, acceptor>>
    /\ UNCHANGED <<registry, conn_bot_id, bots>>

\* stream.next() yields Some(Ok(msg)) for any other variant: a warning is
\* logged, process_bot_message returns Ok and the handler loops.
RecvUnhandled(c) ==
    /\ executor = "up"
    /\ pc[c] = "select"
    /\ ServerUnchanged
    /\ UNCHANGED <<executor, conn_control, registry, pc, permit, conn_bot_id,
                   bots, result, sent>>

\* EndResult with the two cases exchanged.
EndResultSwapped(frame) == IF frame = "None" THEN "ReadError" ELSE "Ok"

\* The result handle_connection returns when stream.next() yields `frame`,
\* which is not Some(Ok(_)): None (end of input) or Some(Err(_)).
EndResult(frame) == IF frame = "None" THEN "Ok" ELSE "ReadError"

\* StreamEnds without the call of remove_bot.
StreamEndsNoRemove(c, frame) ==
    /\ executor = "up"
    /\ pc[c] = "select"
    /\ UNCHANGED registry
    /\ TaskReturns(c, EndResult(frame))
    /\ UNCHANGED <<max_connections, acceptor>>
    /\ UNCHANGED <<conn_bot_id, bots>>

\* stream.next() yields None or Some(Err(_)): with conn_bot_id = Some(id)
\* the handler removes id from the registry; then it returns.
StreamEnds(c, frame) ==
    /\ executor = "up"
    /\ pc[c] = "select"
    /\ IF conn_bot_id[c] # None
       THEN \E id \in conn_bot_id[c] : registry' = remove_bot(registry, id)
       ELSE UNCHANGED registry
    /\ TaskReturns(c, EndResult(frame))
    /\ ServerUnchanged
    /\ UNCHANGED <<conn_bot_id, bots>>

\* sleep(ACTIVITY_TIMEOUT_SECS) wins the select: break Err(Timeout).
ActivityTimeout(c) ==
    /\ executor = "up"
    /\ pc[c] = "select"
    /\ TaskReturns(c, "Timeout")
    /\ ServerUnchanged
    /\ UNCHANGED <<registry, conn_bot_id, bots>>

\* ---------------------------------------------------------- specification
\* In Spec no time passes and the bot is not running: a step of the server
\* leaves the clocks and the engine alone.
Untimed == UNCHANGED <<clock_vars, control_vars>>

Next ==
    \/ \E c \in Conns : Accept(c) /\ Untimed
    \/ AcceptError /\ Untimed
    \/ \E c \in Conns : AcquirePermit(c) /\ Untimed
    \/ \E c \in Conns, id \in BotIds : FirstHello(c, id) /\ Untimed
    \/ \E c \in Conns : AddBot(c) /\ Untimed
    \/ \E c \in Conns : SendBotConfiguration(c) /\ Untimed
    \/ \E c \in Conns : DuplicateHello(c) /\ Untimed
    \/ \E c \in Conns : RecvPing(c) /\ Untimed
    \/ \E c \in Conns : RecvUnhandled(c) /\ Untimed
    \/ \E c \in Conns, frame \in {"None", "Err"} : StreamEnds(c, frame) /\ Untimed
    \/ \E c \in Conns : ActivityTimeout(c) /\ Untimed

Spec == Init /\ [][Next]_vars

TypeOK ==
    /\ max_connections \in 1..MaxPermits
    /\ acceptor \in {"accepting", "returned"}
    /\ executor \in {"up", "down"}
    /\ conn_control \in 0..MaxPermits
    /\ registry \subseteq BotIds
    /\ pc \in [Conns -> Running \cup {"unaccepted", "acquire_permit", "done"}]
    /\ permit \in [Conns -> 0..1]
    /\ conn_bot_id \in [Conns -> OptionBotId]
    /\ bots \in [Conns -> SUBSET BotIds]
    /\ result \in [Conns -> Results]
    /\ sent \in [Conns -> SUBSET ({Pong} \cup
                   {BotConfiguration(id, p) : id \in BotIds, p \in SUBSET BotIds})]
    /\ idle \in [Conns -> 0..ACTIVITY_TIMEOUT_SECS]
    /\ silence \in [Conns -> 0..ACTIVITY_TIMEOUT_SECS]
    /\ control_pc \in {"new", "warmup", "dial", "hello", "loop", "retry_sleep",
                       "returned", "panicked"}
    /\ status \in {"Offline", "Connecting", "Online"}
    /\ shutdown \in BOOLEAN
    /\ timer \in 0..ping_interval
    /\ since_sent \in 0..(ping_interval + 1)
    /\ bot_configuration \in {None} \cup {{X} : X \in 1..NumConfigs}
    /\ Len(config_txs) <= MaxConsumers
    /\ \A i \in 1..Len(config_txs) :
          config_txs[i] \in {<<>>} \cup {<<X>> : X \in 1..NumConfigs}
    /\ Len(owed) <= MaxOwed
    /\ \A i \in 1..Len(owed) : owed[i] \in {"BotConfiguration", "Pong"}
    /\ extra \in BOOLEAN

\* ------------------------------------------------------------- vocabulary
\* The task of c is inside handle_connection.
Open(c) == pc[c] \in Running
\* c has had its Hello accepted and its id added to the registry.
Registered(c) == pc[c] \in {"send_cfg", "select"} /\ conn_bot_id[c] # None
\* c is parked in the select with a Hello behind it: state Registered(id).
Handshaken(c) == pc[c] = "select" /\ conn_bot_id[c] # None
\* No handler is in the middle of processing a frame.
Quiescent == \A c \in Conns : pc[c] \notin {"add_bot", "send_cfg"}
\* The step ends the task of c.
Ends(c) == pc[c] # "done" /\ pc'[c] = "done"
\* The step is a failed write of a reply on c.
WriteFails(c) == (SendBotConfiguration(c) \/ RecvPing(c)) /\ Ends(c)
ConfigsSent(c) == {m \in sent[c] : m.type = "BotConfiguration"}

\* ------------------------------------------------------------------ claims

\* C1: every Hello after the first on a connection ends the connection
\* handler with the error result DuplicateHello and leaves the connection's
\* bot id absent from the registry.
C1_DuplicateHelloResult ==
    [][\A c \in Conns :
         DuplicateHello(c) =>
             /\ result'[c] = "DuplicateHello"
             /\ \A id \in conn_bot_id[c] : id \notin registry']_vars

\* C2: when the stream of a connection in state Registered(id) ends with
\* end-of-input, the handler removes id from the registry and returns Ok.
C2_CleanCloseRegistered ==
    [][\A c \in Conns :
         (Handshaken(c) /\ StreamEnds(c, "None")) =>
             /\ pc'[c] = "done"
             /\ result'[c] = "Ok"
             /\ \A id \in conn_bot_id[c] : id \notin registry']_vars

C2_Witness ==
    \E c \in Conns :
        /\ result[c] = "Ok"
        /\ conn_bot_id[c] # None
        /\ \A id \in conn_bot_id[c] : id \notin registry

\* C3: when a connection that has registered a bot id ends on a read error
\* or on a reply that could not be written, the id is not in the registry
\* afterwards and the handler's result is ReadError, respectively WriteError.
C3_ErrorCleanup ==
    [][\A c \in Conns :
         Registered(c) =>
             /\ (StreamEnds(c, "Err") =>
                     /\ result'[c] = "ReadError"
                     /\ \A id \in conn_bot_id[c] : id \notin registry')
             /\ (WriteFails(c) =>
                     /\ result'[c] = "WriteError"
                     /\ \A id \in conn_bot_id[c] : id \notin registry')]_vars

\* C4: after the handler of a connection in state Registered(id) has
\* returned Timeout, the registry does not contain id, unless another open
\* connection registered it.
C4_TimeoutCleanup ==
    \A c \in Conns :
        (result[c] = "Timeout" /\ conn_bot_id[c] # None) =>
            \A id \in conn_bot_id[c] :
                \/ id \notin registry
                \/ \E d \in Conns \ {c} : Open(d) /\ conn_bot_id[d] = Some(id)

\* C5: whenever no handler is in the middle of processing a frame, a bot id
\* is in the registry if and only if some connection that completed the
\* Hello handshake with that id is still open.
C5_RegistryReflectsConnections ==
    (executor = "up" /\ Quiescent) =>
        registry = {id \in BotIds :
                      \E c \in Conns : Handshaken(c) /\ conn_bot_id[c] = Some(id)}

\* C6: once every connection that sent a Hello has had it processed, with
\* pairwise distinct ids and none of them disconnected, the registry holds
\* exactly their ids, as many as there are such connections.
C6_ConcurrentHellos ==
    LET S == {c \in Conns : conn_bot_id[c] # None}
    IN  (/\ \A c \in S : Registered(c)
         /\ \A c, d \in S : c # d => conn_bot_id[c] # conn_bot_id[d])
        => /\ registry = UNION {conn_bot_id[c] : c \in S}
           /\ Cardinality(registry) = Cardinality(S)

C6_Witness ==
    /\ \A c \in Conns : Registered(c)
    /\ \A c, d \in Conns : c # d => conn_bot_id[c] # conn_bot_id[d]
    /\ Cardinality(registry) = NumConns

C8_PermitPool ==
    /\ Cardinality({c \in Conns : Open(c)}) <= max_connections
    /\ \A c \in Conns : Open(c) => permit[c] = 1

C8_Witness ==
    /\ Cardinality({c \in Conns : Open(c)}) = max_connections
    /\ \E c \in Conns : pc[c] = "acquire_permit"

\* C9: a permit is released on every exit path of the handler, so a
\* connection waiting for a permit can acquire one whenever fewer than
\* max_connections handlers are still running.
C9_WaiterCanProceed ==
    \A c \in Conns :
        (/\ pc[c] = "acquire_permit"
         /\ Cardinality({d \in Conns : Open(d)}) < max_connections)
        => ENABLED AcquirePermit(c)

\* C10: a failure of one connection is confined to its task: the executor
\* stays up, the acceptor is as it was, and the tasks and the registry
\* entries of the other connections are untouched.
C10_FailureIsolation ==
    [][\A c \in Conns :
         (Ends(c) /\ result'[c] # "Ok") =>
             /\ executor' = "up"
             /\ acceptor' = acceptor
             /\ \A d \in Conns \ {c} :
                    /\ pc'[d] = pc[d]
                    /\ result'[d] = result[d]
                    /\ (Registered(d) /\ conn_bot_id[d] \subseteq registry)
                           => conn_bot_id[d] \subseteq registry']_vars

\* C15 as stated: with max_connections = 1 and B1 registered on an open
\* connection, a second connection that has dialled is handled, so that its
\* Hello can be processed.
C15_SecondBotHandled ==
    \A c1, c2 \in Conns :
        (/\ max_connections = 1
         /\ Handshaken(c1)
         /\ pc[c2] = "acquire_permit")
        => ENABLED AcquirePermit(c2)

\* C15 amended: with max_connections = 1, while a registered connection
\* stays open no other connection is handled and the registry does not
\* change; a second Hello on it removes its id from the registry.
C15_SinglePermitSerialises ==
    [][max_connections = 1 =>
         \A c \in Conns :
             Registered(c) =>
                 /\ \A d \in Conns \ {c} :
                        pc[d] \notin Running /\ pc'[d] \notin Running
                 /\ (pc'[c] \in Running => registry' = registry)
                 /\ (DuplicateHello(c) =>
                        registry' = registry \ conn_bot_id[c])]_vars

C15_Witness ==
    /\ max_connections = 1
    /\ \E c1, c2 \in Conns :
           /\ Handshaken(c1)
           /\ registry = conn_bot_id[c1]
           /\ pc[c2] = "acquire_permit"

\* C16 as stated: end-of-input on a connection that has not sent a Hello
\* makes handle_connection return ReadError, the registry unchanged.
C16_EofUnregisteredIsReadError ==
    [][\A c \in Conns :
         (conn_bot_id[c] = None /\ StreamEnds(c, "None")) =>
             /\ result'[c] = "ReadError"
             /\ registry' = registry]_vars

\* C16 amended: end-of-input on a connection that has not sent a Hello makes
\* handle_connection return Ok, as on a registered connection, the registry
\* unchanged; only Some(Err(_)) gives ReadError.
C16_EofUnregisteredIsOk ==
    [][\A c \in Conns :
         conn_bot_id[c] = None =>
             /\ (StreamEnds(c, "None") =>
                    result'[c] = "Ok" /\ registry' = registry)
             /\ (StreamEnds(c, "Err") =>
                    result'[c] = "ReadError" /\ registry' = registry)]_vars

C16_Witness ==
    \E c \in Conns : result[c] = "Ok" /\ conn_bot_id[c] = None

\* C17: processing a Ping leaves conn_bot_id and the registry as they were
\* and writes a Pong and nothing else; processing a variant that is neither
\* Hello nor Ping writes nothing, changes neither, and the handler loops on.
C17_PingAndUnhandledEffect ==
    [][\A c \in Conns :
         /\ RecvPing(c) =>
                /\ registry' = registry
                /\ conn_bot_id' = conn_bot_id
                /\ (pc'[c] # "done" =>
                       /\ pc'[c] = "select"
                       /\ sent'[c] = sent[c] \cup {Pong})
         /\ RecvUnhandled(c) =>
                /\ registry' = registry
                /\ conn_bot_id' = conn_bot_id
                /\ sent'[c] = sent[c]
                /\ pc'[c] = "select"
                /\ result'[c] = "none"]_vars

C17_Witness ==
    \E c, d \in Conns :
        /\ Pong \in sent[c] /\ Handshaken(c)
        /\ Pong \in sent[d] /\ conn_bot_id[d] = None /\ pc[d] = "select"

\* C20: when a newer connection has completed Hello with the id that an
\* older, still open connection registered, the end of the older connection
\* does not take the id out of the registry while the newer one stays open.
C20_ReconnectKeepsRegistration ==
    [][\A old, new \in Conns :
         (/\ old < new
          /\ conn_bot_id[old] = conn_bot_id[new]
          /\ Handshaken(new)
          /\ conn_bot_id[new] \subseteq registry
          /\ Registered(old)
          /\ Ends(old)
          /\ pc'[new] = "select")
         => conn_bot_id[new] \subseteq registry']_vars

\* ------------------------------------------------------ the server's clocks
\* Sleep carried over from the iteration before instead of created anew.
SleepKept(c) == idle

\* sleep(Duration::from_secs(ACTIVITY_TIMEOUT_SECS)): an operand of the
\* select, created anew each time the loop evaluates the select.
Sleep(c) == [idle EXCEPT ![c] = 0]

\* The sleep of connection c has run its full time.
SleepElapsed(c) == idle[c] >= ACTIVITY_TIMEOUT_SECS

\* What a step of the task of connection c does to its clocks.  `frame`
\* says that the step starts handle_connection or takes an inbound frame
\* from stream.next().  While the handler is away from the select there is
\* no sleep; the clocks of a task that has ended are put back to 0.
Clocks(c, frame) ==
    /\ idle' = IF pc'[c] = "select" THEN Sleep(c) ELSE [idle EXCEPT ![c] = 0]
    /\ silence' = [silence EXCEPT ![c] =
                     IF frame \/ pc'[c] \notin Running THEN 0 ELSE @]
    /\ UNCHANGED control_vars

\* One second passes.  A sleep that has run its time is ready, so the
\* select is woken before more time passes.  silence stops counting at the
\* length of the window.
Tick ==
    /\ executor = "up"
    /\ \E c \in Conns : pc[c] \in Running
    /\ \A c \in Conns : pc[c] = "select" => ~SleepElapsed(c)
    /\ idle' = [c \in Conns |->
                  IF pc[c] = "select" THEN idle[c] + 1 ELSE idle[c]]
    /\ silence' = [c \in Conns |->
                     IF pc[c] \in Running /\ silence[c] < ACTIVITY_TIMEOUT_SECS
                     THEN silence[c] + 1 ELSE silence[c]]
    /\ UNCHANGED <<server_vars, control_vars>>

\* The sleep wins the select once it has run its time.
TimeoutFires(c) == SleepElapsed(c) /\ ActivityTimeout(c) /\ Clocks(c, FALSE)

NextTimed ==
    \/ Tick
    \/ \E c \in Conns : Accept(c) /\ Untimed
    \/ AcceptError /\ Untimed
    \/ \E c \in Conns : AcquirePermit(c) /\ Clocks(c, TRUE)
    \/ \E c \in Conns, id \in BotIds : FirstHello(c, id) /\ Clocks(c, TRUE)
    \/ \E c \in Conns : AddBot(c) /\ Clocks(c, FALSE)
    \/ \E c \in Conns : SendBotConfiguration(c) /\ Clocks(c, FALSE)
    \/ \E c \in Conns : DuplicateHello(c) /\ Clocks(c, TRUE)
    \/ \E c \in Conns : RecvPing(c) /\ Clocks(c, TRUE)
    \/ \E c \in Conns : RecvUnhandled(c) /\ Clocks(c, TRUE)
    \/ \E c \in Conns, frame \in {"None", "Err"} :
          StreamEnds(c, frame) /\ Clocks(c, FALSE)
    \/ \E c \in Conns : TimeoutFires(c)

\* The timers of a connection do not depend on the other connections: the
\* timed specification runs the server with a single permit, one handler at
\* a time.
InitTimed == Init /\ max_connections = 1

SpecTimed == InitTimed /\ [][NextTimed]_vars

\* C11: a connection parked in the select whose window of 15 seconds has run
\* out is terminated with Timeout before more time passes, Unregistered or
\* Registered alike; the window never starts earlier than the last inbound
\* frame, so a Timeout only ends a connection that got no frame of any kind
\* for 15 seconds.
C11_ActivityTimeout ==
    /\ [](\A c \in Conns : pc[c] = "select" =>
             /\ idle[c] <= ACTIVITY_TIMEOUT_SECS
             /\ idle[c] <= silence[c]
             /\ SleepElapsed(c) => (ENABLED TimeoutFires(c)) /\ ~ENABLED Tick)
    /\ [][\A c \in Conns :
             /\ (pc[c] = "select" /\ pc'[c] = "select" /\ silence'[c] = 0)
                   => idle'[c] = 0
             /\ (result[c] = "none" /\ result'[c] = "Timeout")
                   => silence[c] >= ACTIVITY_TIMEOUT_SECS]_vars

\* C11 witness: one connection timed out before any Hello, another after its
\* handshake.
C11_Witness ==
    \E c, d \in Conns :
        /\ result[c] = "Timeout" /\ conn_bot_id[c] = None
        /\ result[d] = "Timeout" /\ conn_bot_id[d] # None

\* ----------------------------------------------------------- Control Engine
\* control_pc values
\*   "new"          constructed, start not yet called
\*   "warmup"       start, parked in the opening sleep
\*   "dial"         run_control_loop, parked in TcpStream::connect(..).await
\*   "hello"        parked in framed.send(hello).await
\*   "loop"         parked in the select of the steady-state loop
\*   "retry_sleep"  an attempt returned Err; parked in the sleep before the next
\*   "returned"     start returned Ok(())
\*   "panicked"     start ended in a panic
Configs == 1..NumConfigs

\* The attempt in progress holds the stream to the server.
InAttempt == control_pc \in {"dial", "hello", "loop"}

\* control.push_value(bot_config): a copy of X to every registered channel.
\* A channel is its single slot, <<>> when empty.  An empty slot takes X; what
\* happens to a slot that is still full is left to the producer, so it keeps
\* its value or takes X.
push_value(txs, X) ==
    {t \in [1..Len(txs) -> {<<X>>} \cup {txs[i] : i \in 1..Len(txs)}] :
        \A i \in 1..Len(txs) : t[i] = <<X>> \/ (txs[i] # <<>> /\ t[i] = txs[i])}

\* The server answers a frame the bot wrote with a frame of kind `kind`,
\* which is then on its way.  No more than MaxOwed replies are followed at
\* one time; a reply beyond that is not followed.
Reply(kind) == IF Len(owed) < MaxOwed THEN Append(owed, kind) ELSE owed

\* framed.next() yields a frame of kind `kind`: the oldest reply on its way,
\* or a frame the server sent unasked.
Arrives(kind, reply) ==
    IF reply
    THEN owed # <<>> /\ Head(owed) = kind /\ owed' = Tail(owed) /\ UNCHANGED extra
    ELSE extra' = TRUE /\ UNCHANGED owed

\* if matches!(control.status, Offline | Connecting) { status = Online }
Promote(s) == IF s \in {"Offline", "Connecting"} THEN "Online" ELSE s

\* A step of the engine leaves the server alone.
ControlOnly == UNCHANGED <<server_vars, clock_vars>>

\* data_rx(): a new channel of capacity 1 is made and its producer pushed
\* onto config_txs, which holds at most CONSUMER_LIMIT.
DataRx ==
    /\ control_pc = "new"
    /\ Len(config_txs) < CONSUMER_LIMIT
    /\ Len(config_txs) < MaxConsumers
    /\ config_txs' = Append(config_txs, <<>>)
    /\ ControlOnly
    /\ UNCHANGED <<control_pc, status, shutdown, timer, since_sent,
                   bot_configuration, owed, extra>>

\* start(shutdown) is called and parks in the opening sleep.
Start ==
    /\ control_pc = "new"
    /\ control_pc' = "warmup"
    /\ timer' = 0
    /\ ControlOnly
    /\ UNCHANGED <<status, shutdown, since_sent, bot_configuration,
                   config_txs, owed, extra>>

\* The consumer of channel i takes the value out of its slot.
Consume(i) ==
    /\ i \in 1..Len(config_txs)
    /\ config_txs[i] # <<>>
    /\ config_txs' = [config_txs EXCEPT ![i] = <<>>]
    /\ ControlOnly
    /\ UNCHANGED <<control_pc, status, shutdown, timer, since_sent,
                   bot_configuration, owed, extra>>

\* The shutdown signal is triggered while start runs.
TriggerShutdown ==
    /\ control_pc \in {"warmup", "retry_sleep", "dial", "hello", "loop"}
    /\ ~shutdown
    /\ shutdown' = TRUE
    /\ ControlOnly
    /\ UNCHANGED <<control_pc, status, timer, since_sent, bot_configuration,
                   config_txs, owed, extra>>

\* One second passes while the engine is parked at a sleep.  A sleep that
\* has run its time is ready, so the engine is woken before more time
\* passes.  since_sent stops counting once it has passed ping_interval.
ControlTick ==
    /\ control_pc \in {"warmup", "retry_sleep", "loop"}
    /\ control_pc = "warmup" => timer < START_DELAY_SECS
    /\ control_pc = "retry_sleep" => timer < RETRY_DELAY_SECS
    /\ control_pc = "loop" => timer < ping_interval
    /\ timer' = timer + 1
    /\ since_sent' = IF control_pc = "loop" /\ since_sent <= ping_interval
                     THEN since_sent + 1 ELSE since_sent
    /\ ControlOnly
    /\ UNCHANGED <<control_pc, status, shutdown, bot_configuration,
                   config_txs, owed, extra>>

\* run_control_loop returns Err(e): its locals, the stream included, are
\* dropped; start logs the error and parks in the sleep before the next
\* attempt.
AttemptFails ==
    /\ control_pc' = "retry_sleep"
    /\ timer' = 0
    /\ since_sent' = 0
    /\ owed' = <<>>
    /\ extra' = FALSE

\* The sleep of start has run its time and run_control_loop is called.
\* shutdown.delay_shutdown_token() is refused (ok = FALSE) only when the
\* shutdown is under way; `?` then returns the error.  Otherwise status
\* becomes Connecting and the engine parks in connect.
BeginAttempt(ok) ==
    /\ \/ control_pc = "warmup" /\ timer >= START_DELAY_SECS
       \/ control_pc = "retry_sleep" /\ timer >= RETRY_DELAY_SECS
    /\ ok \/ shutdown
    /\ IF ok
       THEN /\ status' = "Connecting"
            /\ control_pc' = "dial"
            /\ timer' = 0
            /\ UNCHANGED <<since_sent, owed, extra>>
       ELSE AttemptFails /\ UNCHANGED status
    /\ ControlOnly
    /\ UNCHANGED <<shutdown, bot_configuration, config_txs>>

\* TcpStream::connect(..).await: Ok(stream), or Err returned by `?`.
Dial(ok) ==
    /\ control_pc = "dial"
    /\ IF ok
       THEN /\ control_pc' = "hello"
            /\ UNCHANGED <<timer, since_sent, owed, extra>>
       ELSE AttemptFails
    /\ ControlOnly
    /\ UNCHANGED <<status, shutdown, bot_configuration, config_txs>>

\* framed.send(Message::hello(bot_id)).await: an Err is logged and nothing
\* else; either way the engine enters the loop and parks in the select.
SendHello(ok) ==
    /\ control_pc = "hello"
    /\ control_pc' = "loop"
    /\ timer' = 0
    /\ since_sent' = 0
    /\ owed' = IF ok THEN Reply("BotConfiguration") ELSE owed
    /\ ControlOnly
    /\ UNCHANGED <<status, shutdown, bot_configuration, config_txs, extra>>

\* LatestConfiguration leaving the stored configuration as it was.
LatestConfigurationKept(X) == bot_configuration

\* control.bot_configuration = Some(bot_config.clone())
LatestConfiguration(X) == Some(X)

\* framed.next() yields Some(Ok(BotConfiguration(X))): status is promoted, X
\* is stored and pushed to the channels; the loop evaluates the select again
\* with a new sleep(ping_interval).
RecvBotConfiguration(X, reply) ==
    /\ control_pc = "loop"
    /\ Arrives("BotConfiguration", reply)
    /\ status' = Promote(status)
    /\ bot_configuration' = LatestConfiguration(X)
    /\ config_txs' \in push_value(config_txs, X)
    /\ timer' = 0
    /\ ControlOnly
    /\ UNCHANGED <<control_pc, shutdown, since_sent>>

\* framed.next() yields Some(Ok(msg)) for any other variant: status is
\* promoted; the loop evaluates the select again with a new sleep.
RecvOther(kind, reply) ==
    /\ control_pc = "loop"
    /\ Arrives(kind, reply)
    /\ status' = Promote(status)
    /\ timer' = 0
    /\ ControlOnly
    /\ UNCHANGED <<control_pc, shutdown, since_sent, bot_configuration,
                   config_txs>>

\* framed.next() yields Some(Err(e)) or None: return Err.
FrameStreamFails(frame) ==
    /\ control_pc = "loop"
    /\ frame \in {"None", "Err"}
    /\ AttemptFails
    /\ ControlOnly
    /\ UNCHANGED <<status, shutdown, bot_configuration, config_txs>>

\* sleep(control.ping_interval) wins the select:
\* framed.send(Message::ping()).await.unwrap().  On Ok the loop evaluates
\* the select again; on Err unwrap panics.
SendPing(ok) ==
    /\ control_pc = "loop"
    /\ timer >= ping_interval
    /\ timer' = 0
    /\ since_sent' = 0
    /\ IF ok
       THEN /\ owed' = Reply("Pong")
            /\ UNCHANGED <<control_pc, extra>>
       ELSE /\ control_pc' = "panicked"
            /\ owed' = <<>>
            /\ extra' = FALSE
    /\ ControlOnly
    /\ UNCHANGED <<status, shutdown, bot_configuration, config_txs>>

\* shutdown.wait_shutdown_triggered() wins the select: break Ok(()); the
\* while let of start ends and start returns Ok(()).
ObserveShutdown ==
    /\ control_pc = "loop"
    /\ shutdown
    /\ control_pc' = "returned"
    /\ timer' = 0
    /\ since_sent' = 0
    /\ owed' = <<>>
    /\ extra' = FALSE
    /\ ControlOnly
    /\ UNCHANGED <<status, shutdown, bot_configuration, config_txs>>

NextControl ==
    \/ DataRx
    \/ Start
    \/ ControlTick
    \/ TriggerShutdown
    \/ \E ok \in BOOLEAN : BeginAttempt(ok)
    \/ \E ok \in BOOLEAN : Dial(ok)
    \/ \E ok \in BOOLEAN : SendHello(ok)
    \/ \E X \in Configs, reply \in BOOLEAN : RecvBotConfiguration(X, reply)
    \/ \E kind \in {"Pong", "Other"}, reply \in BOOLEAN : RecvOther(kind, reply)
    \/ \E frame \in {"None", "Err"} : FrameStreamFails(frame)
    \/ \E ok \in BOOLEAN : SendPing(ok)
    \/ ObserveShutdown
    \/ \E i \in 1..MaxConsumers : Consume(i)

\* The server is not part of this specification: its variables keep their
\* initial values.
InitControl == Init /\ max_connections = 1

SpecControl == InitControl /\ [][NextControl]_vars

\* The engine takes an inbound frame from framed.next().
Receives ==
    \E reply \in BOOLEAN :
        \/ \E X \in Configs : RecvBotConfiguration(X, reply)
        \/ \E kind \in {"Pong", "Other"} : RecvOther(kind, reply)

\* C12: once shutdown is triggered start returns Ok in whichever phase the
\* trigger arrives; in particular an attempt whose delay-guard acquisition
\* is refused because the shutdown is under way makes start return Ok.
C12_ShutdownReturnsOk ==
    [][BeginAttempt(FALSE) => control_pc' = "returned"]_vars

\* C13: start ends only by the shutdown path: an attempt that ends in any
\* other way is followed by the retry delay and a fresh attempt, and start
\* neither returns nor aborts.
C13_FailedAttemptRetries ==
    [][(InAttempt /\ ~InAttempt') =>
          \/ control_pc' = "retry_sleep"
          \/ ObserveShutdown]_vars

\* C14: with k channels created by data_rx before start, a BotConfiguration
\* X received from the server is stored as the latest configuration, and
\* every channel whose slot was empty holds X, which its consumer can take.
C14_ConfigurationFanOut ==
    /\ [][\A X \in Configs :
             (\E reply \in BOOLEAN : RecvBotConfiguration(X, reply)) =>
                /\ bot_configuration' = Some(X)
                /\ Len(config_txs') = Len(config_txs)
                /\ \A i \in 1..Len(config_txs) :
                      config_txs[i] = <<>> => config_txs'[i] = <<X>>]_vars
    /\ [](\A i \in 1..Len(config_txs) :
             config_txs[i] # <<>> => ENABLED Consume(i))

\* C14 witness: the largest number of channels, the first configuration X
\* has arrived, is stored and sits in every channel.
C14_Witness ==
    \E X \in Configs :
        /\ control_pc = "loop"
        /\ Len(config_txs) = MaxConsumers
        /\ bot_configuration = Some(X)
        /\ \A i \in 1..Len(config_txs) : config_txs[i] = <<X>>

\* C18: an inbound frame leaves the time already run towards the next Ping
\* as it is, so it does not postpone the Ping.
C18_InboundNeverPostponesPing ==
    [][Receives => timer' = timer]_vars

\* C19: a bot in the loop that got nothing but the replies to its own Hello
\* and Pings wrote its last frame no more than ping_interval seconds ago.
C19_FrameEveryPingInterval ==
    (control_pc = "loop" /\ ~extra) => since_sent <= ping_interval

====
